---- MODULE Spec2Model ----
(***************************************************************************)
(* csvcut (src/src/main.rs): the range grammar parser (natural .. target), *)
(* the column selection engine (Range::ends, Target::select) and the row   *)
(* pipeline of main (read_csv, ResultWriter).                              *)
(*                                                                         *)
(* A &str is a sequence of one-character strings.  Option<T> is a sequence *)
(* of length at most one: None is <<>>, Some(v) is <<v>>.  A Range is a    *)
(* tuple headed by its variant name.  An IResult is a record               *)
(* [kind, rest, val] with kind "Ok", "Error" (nom's Err::Error) or "Panic" *)
(* (an unwinding panic, which no combinator catches).                      *)
(***************************************************************************)
EXTENDS Integers, Sequences, FiniteSets, TLC

VARIABLES
    p_input,    \* parser check: the selector text handed to target
    p_result,   \* parser check: None, or Some(result of target(p_input))
    s_target,   \* selection check: the Target
    s_row,      \* selection check: the row (a TargetRow)
    s_result,   \* selection check: None, or Some(result of select)
    cli,        \* main: the parsed command line (Cli)
    pc,         \* main: where the process is
    tgt,        \* main: None, or Some(the Target bound in the normal case)
    records,    \* main: the raw records the csv reader has taken from stdin
    eof,        \* main: the csv reader has reached the end of stdin
    headers,    \* main: ResultWriter.headers (Option<ResultRow>)
    item,       \* main: None, or Some(the item travelling through the iterator chain)
    stdout,     \* main: the lines printed to stdout
    stderr,     \* main: the lines printed to stderr
    exit        \* main: None, or Some(how the process ended)

parse_vars == <<p_input, p_result>>
select_vars == <<s_target, s_row, s_result>>
main_vars == <<cli, pc, tgt, records, eof, headers, item, stdout, stderr, exit>>
vars == <<p_input, p_result, s_target, s_row, s_result,
          cli, pc, tgt, records, eof, headers, item, stdout, stderr, exit>>

None == <<>>
Some(v) == <<v>>

(***************************************************************************)
(* Bounds.                                                                 *)
(***************************************************************************)
\* longest selector text handed to the parser
MaxInputLen == 5
\* largest index stored in a Range of the selection check
MaxIndex == 3
\* most ranges in a Target of the selection check
MaxRanges == 2
\* longest row of the selection check
MaxSelRowLen == 4
\* most fields in a record on stdin
MaxRowLen == 2
\* most records on stdin
MaxRecords == 3

\* the characters a selector text is made of: digits that reach both sides of
\* the u8 limit (255, 256) and the two separators
Chars == {"0", "1", "2", "5", "6", "-", ","}

RECURSIVE StringsUpTo(_)
StringsUpTo(n) ==
    IF n = 0 THEN {<<>>}
    ELSE LET shorter == StringsUpTo(n - 1)
         IN  shorter \cup {Append(s, c) : s \in {t \in shorter : Len(t) = n - 1}, c \in Chars}

(***************************************************************************)
(* Parsers for target.                                                     *)
(***************************************************************************)
Ok(rest, val) == [kind |-> "Ok", rest |-> rest, val |-> val]
Error == [kind |-> "Error", rest |-> <<>>, val |-> <<>>]
Panic == [kind |-> "Panic", rest |-> <<>>, val |-> <<>>]

Digits == {"0", "1", "2", "3", "4", "5", "6", "7", "8", "9"}

DigitValue(c) ==
    CASE c = "0" -> 0 [] c = "1" -> 1 [] c = "2" -> 2 [] c = "3" -> 3 [] c = "4" -> 4
      [] c = "5" -> 5 [] c = "6" -> 6 [] c = "7" -> 7 [] c = "8" -> 8 [] c = "9" -> 9

U8Max == 255

\* many1(one_of("0123456789")): how many leading characters are digits
RECURSIVE many1_digits(_)
many1_digits(input) ==
    IF input # <<>> /\ Head(input) \in Digits THEN 1 + many1_digits(Tail(input)) ELSE 0

\* str::parse::<u8> on a run of digits: Some(value), or None when it overflows u8
RECURSIVE parse_u8_from(_, _)
parse_u8_from(acc, digits) ==
    IF digits = <<>> THEN Some(acc)
    ELSE LET next == acc * 10 + DigitValue(Head(digits))
         IN  IF next > U8Max THEN None ELSE parse_u8_from(next, Tail(digits))

parse_u8(digits) == parse_u8_from(0, digits)

\* the variant that keeps a zero
natural_accepts_zero(input) ==
    LET n == many1_digits(input)
    IN  IF n = 0 THEN Error
        ELSE LET parsed == parse_u8(SubSeq(input, 1, n))
             IN  IF parsed = None THEN Panic
                 ELSE Ok(SubSeq(input, n + 1, Len(input)), parsed[1])

natural(input) ==
    LET n == many1_digits(input)
    IN  IF n = 0 THEN Error
        ELSE LET parsed == parse_u8(SubSeq(input, 1, n))
             IN  IF parsed = None THEN Panic                \* value.parse().unwrap()
                 ELSE IF parsed[1] < 1 THEN Error           \* fail(input)
                 ELSE Ok(SubSeq(input, n + 1, Len(input)), parsed[1])

tag(t, input) ==
    IF input # <<>> /\ Head(input) = t THEN Ok(Tail(input), t) ELSE Error

\* u8 subtraction x - 1; a release build wraps on underflow (a debug build panics)
u8_minus_one(x) == (x + U8Max) % (U8Max + 1)

Single(x) == <<"Single", x>>
Left(x) == <<"Left", x>>
Right(x) == <<"Right", x>>
Interval(x, y) == <<"Interval", x, y>>

\* the rest of single, given what natural returned
single_of(r) ==
    IF r.kind # "Ok" THEN r ELSE Ok(r.rest, Single(u8_minus_one(r.val)))

single(input) == single_of(natural(input))

\* the rest of left, given what natural returned: terminated(natural, tag("-"))
left_of(r) ==
    IF r.kind # "Ok" THEN r
    ELSE LET d == tag("-", r.rest)
         IN  IF d.kind # "Ok" THEN d ELSE Ok(d.rest, Left(u8_minus_one(r.val)))

left(input) == left_of(natural(input))

\* the rest of right, given what tag("-") returned, then what natural returned
right_of(r) ==
    IF r.kind # "Ok" THEN r ELSE Ok(r.rest, Right(u8_minus_one(r.val)))

right(input) ==
    LET d == tag("-", input)
    IN  IF d.kind # "Ok" THEN d ELSE right_of(natural(d.rest))

\* the rest of interval, given what the two naturals returned:
\* separated_pair(natural, tag("-"), natural)
interval_of(l, r) ==
    IF r.kind # "Ok" THEN r
    ELSE Ok(r.rest, Interval(u8_minus_one(l.val), u8_minus_one(r.val)))

interval_after(l) ==
    IF l.kind # "Ok" THEN l
    ELSE LET d == tag("-", l.rest)
         IN  IF d.kind # "Ok" THEN d ELSE interval_of(l, natural(d.rest))

interval(input) == interval_after(natural(input))

\* alt((a, b)): b is tried only when a ends in Err::Error
alt(a, b) == IF a.kind # "Error" THEN a ELSE b

\* alt with left tried before interval
range_left_first(input) ==
    alt(left(input), alt(right(input), alt(interval(input), single(input))))

\* alt((interval, right, left, single))
range(input) ==
    alt(interval(input), alt(right(input), alt(left(input), single(input))))

\* separated_list1(tag(","), range) after the first element: i is the input
\* left, res the ranges so far; separated_list1_next is given what range
\* returned after a separator
RECURSIVE separated_list1_loop(_, _)
separated_list1_next(i, res, e) ==
    IF e.kind = "Error" THEN Ok(i, res)
    ELSE IF e.kind = "Panic" THEN Panic
    ELSE separated_list1_loop(e.rest, Append(res, e.val))

separated_list1_loop(i, res) ==
    LET s == tag(",", i)
    IN  IF s.kind = "Error" THEN Ok(i, res) ELSE separated_list1_next(i, res, range(s.rest))

Target(ranges) == [ranges |-> ranges]

\* the rest of target, given what separated_list1 returned
target_of(l) == IF l.kind # "Ok" THEN l ELSE Ok(l.rest, Target(l.val))

\* separated_list1, given what range returned for the first element
separated_list1_first(first) ==
    IF first.kind # "Ok" THEN first ELSE separated_list1_loop(first.rest, <<first.val>>)

target(input) == target_of(separated_list1_first(range(input)))

(***************************************************************************)
(* Field selector.                                                         *)
(***************************************************************************)
\* stands for usize::MAX, which TLC's integers cannot hold: larger than any
\* position of any row
UsizeMax == 2147483647

\* the variant whose Interval excludes its right limit
ends_exclusive(r) ==
    CASE r[1] = "Single" -> <<r[2], r[2] + 1>>
      [] r[1] = "Left" -> <<r[2], UsizeMax>>
      [] r[1] = "Right" -> <<0, r[2] + 1>>
      [] r[1] = "Interval" -> <<r[2], r[3]>>

ends(r) ==
    CASE r[1] = "Single" -> <<r[2], r[2] + 1>>
      [] r[1] = "Left" -> <<r[2], UsizeMax>>
      [] r[1] = "Right" -> <<0, r[2] + 1>>
      [] r[1] = "Interval" -> <<r[2], r[3] + 1>>

\* TargetRow::get and TargetRow::len of RecordRow and of the tests' VRow
get(row, i) == IF i < Len(row) THEN Some(row[i + 1]) ELSE None
len(row) == Len(row)

\* (from..rlen).filter(|i| *i >= left && *i < right).collect()
RECURSIVE filter_from(_, _, _, _)
filter_from(from, rlen, lo, hi) ==
    IF from >= rlen THEN <<>>
    ELSE (IF from >= lo /\ from < hi THEN <<from>> ELSE <<>>)
             \o filter_from(from + 1, rlen, lo, hi)

\* the variant that scans 0..=rlen
indexes_inclusive(rlen, lo, hi) == filter_from(0, rlen + 1, lo, hi)

indexes(rlen, lo, hi) == filter_from(0, rlen, lo, hi)

\* the positions select looks up, in the order it looks them up
RECURSIVE lookups_from(_, _, _)
lookups_from(ranges, k, rlen) ==
    IF k > Len(ranges) THEN <<>>
    ELSE indexes(rlen, ends(ranges[k])[1], ends(ranges[k])[2])
             \o lookups_from(ranges, k + 1, rlen)

lookups(t, row) == lookups_from(t.ranges, 1, len(row))

\* v.push(row.get(idx).unwrap().to_owned()) for every idx
RECURSIVE push_all(_, _, _)
push_all(row, idxs, v) ==
    IF idxs = <<>> THEN Ok(<<>>, v)
    ELSE LET g == get(row, Head(idxs))
         IN  IF g = None THEN Panic ELSE push_all(row, Tail(idxs), Append(v, g[1]))

\* Target::select: Ok(.., ResultRow) or Panic
select(t, row) == push_all(row, lookups(t, row), <<>>)

(***************************************************************************)
(* The parser on its own: target applied to every selector text.          *)
(***************************************************************************)
\* the variables of a check that is not running
Idle == [kind |-> "Idle", rest |-> <<>>, val |-> <<>>]
ParseIdle == p_input = <<>> /\ p_result = Some(Idle)
SelectIdle == s_target = Target(<<>>) /\ s_row = <<>> /\ s_result = Some(Idle)
MainIdle ==
    /\ cli = <<>> /\ pc = "idle" /\ tgt = None /\ records = <<>> /\ eof = FALSE
    /\ headers = None /\ item = None /\ stdout = <<>> /\ stderr = <<>> /\ exit = None

InitParse ==
    /\ p_input \in StringsUpTo(MaxInputLen)
    /\ p_result = None
    /\ SelectIdle /\ MainIdle

CallTarget ==
    /\ p_result = None
    /\ p_result' = Some(target(p_input))
    /\ UNCHANGED <<p_input, select_vars, main_vars>>

NextParse == CallTarget

SpecParse == InitParse /\ [][NextParse]_vars

(***************************************************************************)
(* The selection engine on its own: select applied to every Target and    *)
(* row.                                                                    *)
(***************************************************************************)
Ranges ==
    {Single(i) : i \in 0..MaxIndex} \cup {Left(i) : i \in 0..MaxIndex}
        \cup {Right(i) : i \in 0..MaxIndex}
        \cup {Interval(i, j) : i \in 0..MaxIndex, j \in 0..MaxIndex}

RECURSIVE SeqsUpTo(_, _)
SeqsUpTo(S, n) ==
    IF n = 0 THEN {<<>>}
    ELSE LET shorter == SeqsUpTo(S, n - 1)
         IN  shorter \cup {Append(s, x) : s \in {t \in shorter : Len(t) = n - 1}, x \in S}

\* the name of column i, as in the tests' rows ["0", "1", "2", ...]
ColumnNames == <<"0", "1", "2", "3", "4", "5", "6", "7", "8", "9">>
TestRow(n) == SubSeq(ColumnNames, 1, n)

InitSelect ==
    /\ s_target \in {Target(rs) : rs \in SeqsUpTo(Ranges, MaxRanges)}
    /\ s_row \in {TestRow(n) : n \in 0..MaxSelRowLen}
    /\ s_result = None
    /\ ParseIdle /\ MainIdle

CallSelect ==
    /\ s_result = None
    /\ s_result' = Some(select(s_target, s_row))
    /\ UNCHANGED <<s_target, s_row, parse_vars, main_vars>>

NextSelect == CallSelect

SpecSelect == InitSelect /\ [][NextSelect]_vars

(***************************************************************************)
(* IO: the csv reader built by read_csv, the ResultWriter and main.       *)
(***************************************************************************)
\* what a field holds
Fields == {"a", "b"}
\* stands for a field whose bytes are not UTF-8
BadBytes == "\\xff"

\* a record as it lies on stdin: its fields, and whether they are all UTF-8
RawRecord(fields, utf8) == [fields |-> fields, utf8 |-> utf8]

RawRecords ==
    {RawRecord(f, TRUE) : f \in SeqsUpTo(Fields, MaxRowLen) \ {<<>>}}
        \cup {RawRecord([k \in 1..n |-> BadBytes], FALSE) : n \in 1..MaxRowLen}

\* what stdin may hold after the records in read: any record with as many
\* fields as the first one; of the records with another field count, which the
\* reader rejects whatever their fields hold, one per count
NextRecords(read) ==
    IF read = <<>> THEN RawRecords
    ELSE {r \in RawRecords :
            \/ Len(r.fields) = Len(read[1].fields)
            \/ r.utf8 /\ \A k \in 1..Len(r.fields) : r.fields[k] = "a"}

\* the selector arguments main is run with: the fatal ones (nothing, a zero,
\* a number over 255, a trailing comma, two dashes, a zero after a comma) and
\* some that parse
TargetArgs ==
    { <<>>, <<"0">>, <<"2", "5", "6">>, <<"1", ",">>, <<"1", "-", "-", "2">>,
      <<"1", ",", "0">>,
      <<"2">>, <<"2", ",", "1">>, <<"1", ",", "1", "-">> }

ItemOk(v) == [ok |-> TRUE, val |-> v]
ItemErr(e) == [ok |-> FALSE, val |-> <<e>>]

\* the field count the reader holds every record to (it is not flexible):
\* that of the first record it read, header or not
first_field_count(read) == Len(read[1].fields)

\* what the reader yields for raw record r, read after the records in read
read_record(read, r) ==
    IF read # <<>> /\ Len(r.fields) # first_field_count(read) THEN ItemErr("UnequalLengths")
    ELSE IF ~r.utf8 THEN ItemErr("Utf8")
    ELSE ItemOk(r.fields)

\* reader.headers() on the first record (None at the end of input), as
\* read_csv keeps it: Err(_) => None, empty => None
headers_of(first) ==
    IF first = None THEN None
    ELSE IF ~first[1].utf8 THEN None
    ELSE Some(first[1].fields)

\* v.join(",")
RECURSIVE join(_, _)
join(v, sep) ==
    IF v = <<>> THEN ""
    ELSE IF Len(v) = 1 THEN v[1]
    ELSE v[1] \o sep \o join(Tail(v), sep)

\* HashMap::insert
insert(map, k, v) == [x \in DOMAIN map \cup {k} |-> IF x = k THEN v ELSE map[x]]

\* for (v, h) in row.iter().zip(headers.iter()) { map.insert(h, v); }
RECURSIVE insert_zipped(_, _, _, _)
insert_zipped(map, row, hdrs, k) ==
    IF k > Len(row) \/ k > Len(hdrs) THEN map
    ELSE insert_zipped(insert(map, hdrs[k], row[k]), row, hdrs, k + 1)

Line(kind, body) == [kind |-> kind, body |-> body]

Exit(code, msg, parsed, remaining) ==
    [code |-> code, msg |-> msg, parsed |-> parsed, remaining |-> remaining]

InitMain ==
    /\ cli \in [target : TargetArgs, delimiter_len : 1..2, json : BOOLEAN, header : BOOLEAN]
    /\ pc = "main"
    /\ tgt = None /\ records = <<>> /\ eof = FALSE /\ headers = None /\ item = None
    /\ stdout = <<>> /\ stderr = <<>> /\ exit = None
    /\ ParseIdle /\ SelectIdle

Terminate(e) ==
    /\ pc' = "exited"
    /\ exit' = Some(e)

\* main: cli.delimiter.len_utf8() > 1
ExitDelimiter ==
    /\ pc = "main"
    /\ cli.delimiter_len > 1
    /\ Terminate(Exit(2, "Delimiter expect 1 byte character", None, <<>>))
    /\ UNCHANGED <<cli, tgt, records, eof, headers, item, stdout, stderr, parse_vars, select_vars>>

\* main: target(&cli.target) is Err(err)
ExitInvalidTarget ==
    /\ pc = "main"
    /\ cli.delimiter_len <= 1
    /\ target(cli.target).kind = "Error"
    /\ Terminate(Exit(2, "Invalid target", None, <<>>))
    /\ UNCHANGED <<cli, tgt, records, eof, headers, item, stdout, stderr, parse_vars, select_vars>>

\* main: target(&cli.target) panics in natural
PanicInTarget ==
    /\ pc = "main"
    /\ cli.delimiter_len <= 1
    /\ target(cli.target).kind = "Panic"
    /\ Terminate(Exit(101, "panicked: called Result::unwrap() on an Err value", None, <<>>))
    /\ UNCHANGED <<cli, tgt, records, eof, headers, item, stdout, stderr, parse_vars, select_vars>>

\* main: target(&cli.target) is Ok((x, tgt)) with x not ""
ExitRemaining ==
    /\ pc = "main"
    /\ cli.delimiter_len <= 1
    /\ LET r == target(cli.target)
       IN  /\ r.kind = "Ok"
           /\ r.rest # <<>>
           /\ Terminate(Exit(2, "Invalid target, parsed as .. but remaining ..",
                             Some(r.val), r.rest))
    /\ UNCHANGED <<cli, tgt, records, eof, headers, item, stdout, stderr, parse_vars, select_vars>>

\* what stdin may start with when read_csv looks for a header
FirstRecords == IF cli.header THEN {None} \cup {Some(r) : r \in RawRecords} ELSE {None}

\* the variant whose reader does not take the first record as header
read_csv_keeps_first(need_headers, first) ==
    [records |-> <<>>,
     eof |-> FALSE,
     headers |-> IF need_headers THEN headers_of(first) ELSE None]

\* read_csv: the Input, and what the reader has taken from stdin for it; first
\* is the first record on stdin (None: stdin is empty), looked at only with
\* need_headers
read_csv(need_headers, first) ==
    [records |-> IF need_headers /\ first # None THEN <<first[1]>> ELSE <<>>,
     eof |-> need_headers /\ first = None,
     headers |-> IF need_headers THEN headers_of(first) ELSE None]

\* the selected header row as ResultWriter keeps it
ResultWriter_headers(sel) == IF sel.kind = "Panic" THEN Panic ELSE Ok(<<>>, Some(sel.val))

\* ResultWriter::new: headers.map(|x| target.select(x)), Panic when select panics
ResultWriter_new(t, hdr) ==
    IF hdr = None THEN Ok(<<>>, None) ELSE ResultWriter_headers(select(t, hdr[1]))

\* the normal case of main up to the first next(), given the Input
SetUp(input) ==
    LET w == ResultWriter_new(target(cli.target).val, input.headers)
    IN  /\ tgt' = Some(target(cli.target).val)
        /\ records' = input.records
        /\ eof' = input.eof
        /\ IF w.kind = "Panic"
           THEN /\ Terminate(Exit(101, "panicked: called Option::unwrap() on a None value",
                                  None, <<>>))
                /\ headers' = None
           ELSE /\ pc' = "next"
                /\ headers' = w.val
                /\ exit' = exit
        /\ UNCHANGED <<cli, item, stdout, stderr, parse_vars, select_vars>>

\* the variant that takes any Ok((x, tgt)) as the normal case
StartProcessing_any_remainder ==
    /\ pc = "main"
    /\ cli.delimiter_len <= 1
    /\ target(cli.target).kind = "Ok"
    /\ \E first \in FirstRecords : SetUp(read_csv(cli.header, first))

\* main: target(&cli.target) is Ok(("", tgt)): read_csv, ResultWriter::new,
\* and the iterator chain is built
StartProcessing ==
    /\ pc = "main"
    /\ cli.delimiter_len <= 1
    /\ target(cli.target).kind = "Ok"
    /\ target(cli.target).rest = <<>>
    /\ \E first \in FirstRecords : SetUp(read_csv(cli.header, first))

\* the item of a selected row
map_select_of(sel) == IF sel.kind = "Panic" THEN Panic ELSE Ok(<<>>, ItemOk(sel.val))

\* .map(|x| x.map(|z| t.select(z))): the item made of what the reader yielded
map_select(t, got) ==
    IF ~got.ok THEN Ok(<<>>, got) ELSE map_select_of(select(t, got.val))

\* raw record r is taken from stdin and got, what the reader yields for it,
\* goes through the map closure
Yield(r, got) ==
    LET mapped == map_select(tgt[1], got)
    IN  /\ records' = Append(records, r)
        /\ IF mapped.kind = "Panic"
           THEN /\ Terminate(Exit(101, "panicked: called Option::unwrap() on a None value",
                                  None, <<>>))
                /\ item' = item
           ELSE /\ pc' = "write"
                /\ item' = Some(mapped.val)
                /\ exit' = exit

\* the variant that reads the next record while an item is still unwritten
NextRecord_read_ahead ==
    /\ pc \in {"next", "write"}
    /\ ~eof
    /\ Len(records) < MaxRecords
    /\ \E r \in NextRecords(records) : Yield(r, read_record(records, r))
    /\ UNCHANGED <<cli, tgt, eof, headers, stdout, stderr, parse_vars, select_vars>>

\* for_each calls next(): the reader yields a record and the map closure
\* selects from it
NextRecord ==
    /\ pc = "next"
    /\ ~eof
    /\ Len(records) < MaxRecords
    /\ \E r \in NextRecords(records) : Yield(r, read_record(records, r))
    /\ UNCHANGED <<cli, tgt, eof, headers, stdout, stderr, parse_vars, select_vars>>

\* for_each calls next(): the reader is at the end of stdin; main returns
EndOfInput ==
    /\ pc = "next"
    /\ eof' = TRUE
    /\ item' = None
    /\ Terminate(Exit(0, "", None, <<>>))
    /\ UNCHANGED <<cli, tgt, records, headers, stdout, stderr, parse_vars, select_vars>>

\* the variant that gives up at the first row error
WriteError_fatal ==
    /\ pc = "write"
    /\ ~item[1].ok
    /\ stderr' = Append(stderr, item[1].val[1])
    /\ item' = None
    /\ Terminate(Exit(1, "row error", None, <<>>))
    /\ UNCHANGED <<cli, tgt, records, eof, headers, stdout, parse_vars, select_vars>>

\* ResultWriter::write: Err(err) => eprintln
WriteError ==
    /\ pc = "write"
    /\ ~item[1].ok
    /\ stderr' = Append(stderr, item[1].val[1])
    /\ item' = None
    /\ pc' = "next"
    /\ UNCHANGED <<cli, tgt, records, eof, headers, stdout, exit, parse_vars, select_vars>>

\* ResultWriter::write -> write_csv
WriteCsv ==
    /\ pc = "write"
    /\ item[1].ok
    /\ ~cli.json
    /\ stdout' = Append(stdout, Line("plain", join(item[1].val, ",")))
    /\ item' = None
    /\ pc' = "next"
    /\ UNCHANGED <<cli, tgt, records, eof, headers, stderr, exit, parse_vars, select_vars>>

\* ResultWriter::write -> write_json -> write_json_array
WriteJsonArray ==
    /\ pc = "write"
    /\ item[1].ok
    /\ cli.json
    /\ headers = None
    /\ stdout' = Append(stdout, Line("array", item[1].val))
    /\ item' = None
    /\ pc' = "next"
    /\ UNCHANGED <<cli, tgt, records, eof, headers, stderr, exit, parse_vars, select_vars>>

\* ResultWriter::write -> write_json -> write_json_object
WriteJsonObject ==
    /\ pc = "write"
    /\ item[1].ok
    /\ cli.json
    /\ headers # None
    /\ stdout' = Append(stdout, Line("object", insert_zipped(<<>>, item[1].val, headers[1], 1)))
    /\ item' = None
    /\ pc' = "next"
    /\ UNCHANGED <<cli, tgt, records, eof, headers, stderr, exit, parse_vars, select_vars>>

Next ==
    \/ ExitDelimiter
    \/ ExitInvalidTarget
    \/ PanicInTarget
    \/ ExitRemaining
    \/ StartProcessing
    \/ NextRecord
    \/ EndOfInput
    \/ WriteError
    \/ WriteCsv
    \/ WriteJsonArray
    \/ WriteJsonObject

Spec == InitMain /\ [][Next]_vars

(***************************************************************************)
(* What the selection engine is to return, stated from the declared       *)
(* half-open intervals.                                                    *)
(***************************************************************************)
\* position p lies in the interval of r: [i,i+1), [i,infinity), [0,i+1), [i,j+1)
InDeclared(r, p) ==
    CASE r[1] = "Single" -> r[2] <= p /\ p < r[2] + 1
      [] r[1] = "Left" -> r[2] <= p
      [] r[1] = "Right" -> 0 <= p /\ p < r[2] + 1
      [] r[1] = "Interval" -> r[2] <= p /\ p < r[3] + 1

\* the fields of row at the positions below n that r covers, ascending
RECURSIVE PickedBelow(_, _, _)
PickedBelow(r, row, n) ==
    IF n = 0 THEN <<>>
    ELSE PickedBelow(r, row, n - 1) \o (IF InDeclared(r, n - 1) THEN <<row[n]>> ELSE <<>>)

\* the picks of the first k ranges, in the order the ranges are declared
RECURSIVE ExpectedUpTo(_, _, _)
ExpectedUpTo(ranges, row, k) ==
    IF k = 0 THEN <<>>
    ELSE ExpectedUpTo(ranges, row, k - 1) \o PickedBelow(ranges[k], row, Len(row))

Expected(t, row) == ExpectedUpTo(t.ranges, row, Len(t.ranges))

Selected == s_result # None /\ s_result[1].kind # "Idle"

\* C1: select returns exactly the concatenation, in the order the ranges were
\* declared, of the row's fields at the ascending positions each range's
\* half-open interval covers; overlapping ranges repeat fields.
C1_SelectIsDeclaredOrderConcatenation ==
    Selected =>
        s_result[1] = Ok(<<>>, Expected(s_target, s_row))

\* C1 witness: the crossing Single + Interval of the tests, one column to the left
C1_Witness ==
    /\ s_target = Target(<<Single(2), Interval(1, 3)>>)
    /\ s_row = <<"0", "1", "2", "3">>
    /\ s_result = Some(Ok(<<>>, <<"2", "1", "2", "3">>))

\* C8: select never panics, looks up only positions below row.len(), and
\* requests beyond the row are skipped: Single(i) and Left(i) with i >= len
\* select nothing, Right(i) with i + 1 >= len selects the whole row,
\* Interval(i, j) with i > j selects nothing.
C8_SelectIsTotal ==
    Selected =>
        LET res == s_result[1]
            rs == s_target.ranges
            looked == lookups(s_target, s_row)
        IN  /\ res.kind = "Ok"
            /\ \A k \in 1..Len(looked) : looked[k] < Len(s_row)
            /\ Len(rs) = 0 => res.val = <<>>
            /\ Len(s_row) = 0 => res.val = <<>>
            /\ Len(rs) = 1 =>
                 LET r == rs[1]
                 IN  /\ r[1] \in {"Single", "Left"} /\ r[2] >= Len(s_row) => res.val = <<>>
                     /\ r[1] = "Right" /\ r[2] + 1 >= Len(s_row) => res.val = s_row
                     /\ r[1] = "Interval" /\ r[2] > r[3] => res.val = <<>>

\* C8 witness: both ranges ask for columns beyond a two-column row
C8_Witness ==
    /\ s_target = Target(<<Left(3), Right(3)>>)
    /\ s_row = <<"0", "1">>
    /\ s_result = Some(Ok(<<>>, <<"0", "1">>))

(***************************************************************************)
(* What the parser is to return, stated from the selector text.           *)
(***************************************************************************)
RECURSIVE DecimalValue(_)
DecimalValue(ds) ==
    IF ds = <<>> THEN 0
    ELSE DecimalValue(SubSeq(ds, 1, Len(ds) - 1)) * 10 + DigitValue(ds[Len(ds)])

IsDigitRun(s) == s # <<>> /\ \A k \in 1..Len(s) : s[k] \in Digits

\* a number the user may write: digits whose value is in 1..255
IsNumber(s) == IsDigitRun(s) /\ DecimalValue(s) \in 1..U8Max

\* the positions of character c in s
PositionsOf(c, s) == {k \in 1..Len(s) : s[k] = c}

\* the text between two commas (or an end), commas at positions a and b
Between(s, a, b) == SubSeq(s, a + 1, b - 1)

\* the comma-separated components of s, in order
Components(s) ==
    LET cuts == PositionsOf(",", s) \cup {0, Len(s) + 1}
        next(a) == CHOOSE b \in cuts : b > a /\ \A c \in cuts : c > a => b <= c
        start[k \in 1..Cardinality(cuts) - 1] == IF k = 1 THEN 0 ELSE next(start[k - 1])
    IN  [k \in 1..Cardinality(cuts) - 1 |-> Between(s, start[k], next(start[k]))]

\* the one dash of a component splits it into what is before and after
BeforeDash(c) == SubSeq(c, 1, (CHOOSE k \in PositionsOf("-", c) : TRUE) - 1)
AfterDash(c) == SubSeq(c, (CHOOSE k \in PositionsOf("-", c) : TRUE) + 1, Len(c))

IsComponent(c) ==
    \/ IsNumber(c)
    \/ /\ Cardinality(PositionsOf("-", c)) = 1
       /\ \/ IsNumber(BeforeDash(c)) /\ AfterDash(c) = <<>>
          \/ BeforeDash(c) = <<>> /\ IsNumber(AfterDash(c))
          \/ IsNumber(BeforeDash(c)) /\ IsNumber(AfterDash(c))

IsSelectorText(s) == \A k \in 1..Len(Components(s)) : IsComponent(Components(s)[k])

\* "n" -> Single(n-1), "n-" -> Left(n-1), "-n" -> Right(n-1), "n-m" -> Interval(n-1, m-1)
RangeOfComponent(c) ==
    IF PositionsOf("-", c) = {} THEN Single(DecimalValue(c) - 1)
    ELSE IF AfterDash(c) = <<>> THEN Left(DecimalValue(BeforeDash(c)) - 1)
    ELSE IF BeforeDash(c) = <<>> THEN Right(DecimalValue(AfterDash(c)) - 1)
    ELSE Interval(DecimalValue(BeforeDash(c)) - 1, DecimalValue(AfterDash(c)) - 1)

Parsed == p_result # None /\ p_result[1].kind # "Idle"

\* C2: on a comma-separated list of components "n", "n-", "-n", "n-m" with
\* every number in 1..255, target leaves an empty remainder and returns one
\* range per component, in the order written.
C2_ValidSelectorParsesWhole ==
    Parsed /\ IsSelectorText(p_input) =>
        p_result[1] = Ok(<<>>, Target([k \in 1..Len(Components(p_input)) |->
                                          RangeOfComponent(Components(p_input)[k])]))

\* C2 witness: "2-5,1" is one Interval and one Single
C2_Witness ==
    /\ p_input = <<"2", "-", "5", ",", "1">>
    /\ p_result = Some(Ok(<<>>, Target(<<Interval(1, 4), Single(0)>>)))

\* the maximal runs of digits of s, in order
RECURSIVE DigitRuns(_)
DigitRuns(s) ==
    IF s = <<>> THEN <<>>
    ELSE IF Head(s) \notin Digits THEN DigitRuns(Tail(s))
    ELSE LET n == many1_digits(s)
         IN  <<SubSeq(s, 1, n)>> \o DigitRuns(SubSeq(s, n + 1, Len(s)))

HasOverflowingNumber(s) ==
    \E k \in 1..Len(DigitRuns(s)) : DecimalValue(DigitRuns(s)[k]) > U8Max

\* C3: a selector with a number above 255 is reported as a parse failure (an
\* error value, or a remainder left for main to report) and the process does
\* not crash.
C3_OverflowIsParseFailure ==
    Parsed /\ HasOverflowingNumber(p_input) =>
        \/ p_result[1].kind = "Error"
        \/ p_result[1].kind = "Ok" /\ p_result[1].rest # <<>>

\* the indices a Target stores, in order
RECURSIVE IndicesOf(_)
IndicesOf(ranges) ==
    IF ranges = <<>> THEN <<>> ELSE Tail(Head(ranges)) \o IndicesOf(Tail(ranges))

\* the part of the text the parser consumed
Consumed(s, rest) == SubSeq(s, 1, Len(s) - Len(rest))

\* C9: a Target returned by a successful parse holds at least one range, and
\* its indices are, in order, the numbers of the consumed text minus one,
\* each in 0..254 (no zero number, no underflow, leading zeros accepted).
C9_ParsedIndicesAreNumbersMinusOne ==
    Parsed /\ p_result[1].kind = "Ok" =>
        LET rs == p_result[1].val.ranges
            idx == IndicesOf(rs)
            runs == DigitRuns(Consumed(p_input, p_result[1].rest))
        IN  /\ Len(rs) >= 1
            /\ Len(idx) = Len(runs)
            /\ \A k \in 1..Len(idx) :
                   /\ idx[k] \in 0..(U8Max - 1)
                   /\ idx[k] = DecimalValue(runs[k]) - 1

\* C9 witness: "002,0" keeps the leading zeros of 2 and stops before the zero
C9_Witness ==
    /\ p_input = <<"0", "0", "2", ",", "0">>
    /\ p_result = Some(Ok(<<",", "0">>, Target(<<Single(1)>>)))

(***************************************************************************)
(* What main is to do with the command line and with stdin.               *)
(***************************************************************************)
\* the records of stdin that are data: all but the header when the flag is set
DataFrom == IF cli.header THEN 2 ELSE 1
DataCount == IF Len(records) >= DataFrom THEN Len(records) - DataFrom + 1 ELSE 0

\* the k-th data record and what the row source yields for it
DataRecord(k) == records[DataFrom + k - 1]
DataYield(k) == read_record(SubSeq(records, 1, DataFrom + k - 2), DataRecord(k))
WellFormed(k) == DataYield(k).ok

\* how many data records have had their outcome written
WrittenCount == IF pc = "write" THEN DataCount - 1 ELSE DataCount

\* the well-formed data records among the first n, in input order
RECURSIVE WellFormedUpTo(_)
WellFormedUpTo(n) ==
    IF n <= 0 THEN <<>>
    ELSE WellFormedUpTo(n - 1) \o (IF WellFormed(n) THEN <<DataRecord(n).fields>> ELSE <<>>)

ErroneousUpTo(n) == {k \in 1..n : ~WellFormed(k)}

\* the command line is fatal, r being what target returns for the selector: a
\* delimiter wider than one byte, no valid parse, or a parse with a remainder
Fatal(r) == cli.delimiter_len > 1 \/ r.kind # "Ok" \/ r.rest # <<>>

\* C4: a fatal command line ends the process with an error before any record
\* is read or any row written; only a parse with an empty remainder leads to
\* row processing; a remainder is reported apart from a failed parse, with
\* the recognised prefix and the remainder.
C4_StartupIsFatalBeforeAnyRow ==
    pc \notin {"idle", "main"} =>
        LET r == target(cli.target)
        IN  /\ Fatal(r) =>
                 /\ pc = "exited" /\ exit # None /\ exit[1].code # 0
                 /\ records = <<>> /\ stdout = <<>> /\ tgt = None /\ item = None
            /\ (pc \in {"next", "write"} \/ records # <<>> \/ stdout # <<>> \/ tgt # None) =>
                 /\ ~Fatal(r)
                 /\ tgt = Some(r.val)
            /\ pc = "exited" /\ cli.delimiter_len <= 1 /\ r.kind = "Ok" /\ r.rest # <<>> =>
                 /\ exit[1].parsed = Some(r.val)
                 /\ exit[1].remaining = r.rest
                 /\ exit[1].msg # "Invalid target"
            /\ pc = "exited" /\ cli.delimiter_len <= 1 /\ r.kind = "Error" =>
                 /\ exit[1].parsed = None
                 /\ exit[1].remaining = <<>>
                 /\ exit[1].msg = "Invalid target"

\* C4 witness: "1--2" is recognised up to "1-" and ends the process with "-2" left
C4_Witness ==
    /\ cli # <<>>
    /\ cli.target = <<"1", "-", "-", "2">>
    /\ pc = "exited"
    /\ exit = Some(Exit(2, "Invalid target, parsed as .. but remaining ..",
                        Some(Target(<<Left(0)>>)), <<"-", "2">>))
    /\ records = <<>> /\ stdout = <<>>

\* C5: every erroneous data record gives one diagnostic and no output row,
\* every well-formed one gives one output row, and the process ends only at
\* the end of stdin, with status 0, however many rows were in error.
C5_RowErrorsNeverStopTheStream ==
    pc \in {"next", "write", "exited"} /\ tgt # None =>
        /\ Len(stderr) = Cardinality(ErroneousUpTo(WrittenCount))
        /\ Len(stdout) = Len(WellFormedUpTo(WrittenCount))
        /\ pc = "exited" => eof /\ exit[1].code = 0 /\ WrittenCount = DataCount

\* C5 witness: an erroneous record between two well-formed ones
C5_Witness ==
    /\ pc = "exited"
    /\ tgt # None
    /\ ~cli.header
    /\ Len(records) = 3
    /\ WellFormed(1) /\ ~WellFormed(2) /\ WellFormed(3)
    /\ Len(stdout) = 2 /\ Len(stderr) = 1
    /\ exit[1].code = 0

\* C6: in plain output the rows are the selections of the well-formed data
\* records, in order, where the first record of stdin is data exactly when the
\* header flag is unset.
C6_HeaderFlagDecidesFirstRecord ==
    pc \in {"next", "write", "exited"} /\ tgt # None /\ ~cli.json =>
        LET rows == WellFormedUpTo(WrittenCount)
        IN  /\ Len(stdout) = Len(rows)
            /\ \A k \in 1..Len(rows) :
                   stdout[k] = Line("plain", join(Expected(tgt[1], rows[k]), ","))
            /\ cli.header /\ records # <<>> =>
                   Len(stdout) + Len(stderr) + (IF pc = "write" THEN 1 ELSE 0) = Len(records) - 1
            /\ ~cli.header =>
                   Len(stdout) + Len(stderr) + (IF pc = "write" THEN 1 ELSE 0) = Len(records)

\* C6 witness: "1,1-" with the header flag on a,b / b,a / b,b prints b,b,a and b,b,b
C6_Witness ==
    /\ pc = "exited"
    /\ cli # <<>>
    /\ cli.header /\ ~cli.json
    /\ cli.target = <<"1", ",", "1", "-">>
    /\ records = <<RawRecord(<<"a", "b">>, TRUE), RawRecord(<<"b", "a">>, TRUE),
                   RawRecord(<<"b", "b">>, TRUE)>>
    /\ stdout = <<Line("plain", "b,b,a"), Line("plain", "b,b,b")>>

\* the header row the writer selects from: the first record, when the flag is
\* set and the record is a well-formed one
HeaderRow ==
    IF cli.header /\ records # <<>> /\ records[1].utf8 THEN Some(records[1].fields) ELSE None

\* C7: in JSON mode with a header row, the object of every data row maps the
\* k-th selected header name to the k-th selected value, for every position k;
\* without a header row the row is the array of the selected values.
C7_JsonPairsPositionally ==
    pc \in {"next", "write", "exited"} /\ tgt # None /\ cli.json =>
        LET rows == WellFormedUpTo(WrittenCount)
        IN  /\ Len(stdout) = Len(rows)
            /\ \A n \in 1..Len(rows) :
                   LET vals == Expected(tgt[1], rows[n])
                   IN  IF HeaderRow = None
                       THEN stdout[n] = Line("array", vals)
                       ELSE LET names == Expected(tgt[1], HeaderRow[1])
                            IN  /\ stdout[n].kind = "object"
                                /\ Len(names) = Len(vals)
                                /\ \A k \in 1..Len(vals) :
                                       /\ names[k] \in DOMAIN stdout[n].body
                                       /\ stdout[n].body[names[k]] = vals[k]

\* what the writer prints for a selected row
Rendered(v) ==
    IF ~cli.json THEN Line("plain", join(v, ","))
    ELSE IF headers = None THEN Line("array", v)
    ELSE Line("object", insert_zipped(<<>>, v, headers[1], 1))

\* C10: a record is read only when the outcome of every record before it has
\* been written; a step that prints a row appends the selection of the last
\* record read, by the parsed selector, after the rows printed before; and no
\* step changes the parsed selector.
C10_ReadSelectWritePipeline ==
    [][/\ Len(records') > Len(records) /\ tgt # None =>
            Len(stdout) + Len(stderr) = DataCount
       /\ stdout' # stdout =>
            /\ WellFormed(DataCount)
            /\ stdout' = Append(stdout,
                                Rendered(Expected(tgt[1], DataRecord(DataCount).fields)))
            /\ Len(stdout') + Len(stderr') = DataCount
       /\ stderr' # stderr =>
            /\ ~WellFormed(DataCount)
            /\ Len(stderr') = Len(stderr) + 1
            /\ Len(stdout') + Len(stderr') = DataCount
       /\ tgt # None => tgt' = tgt
       /\ tgt' # None => tgt' = Some(target(cli.target).val)]_vars

\* C10 witness: three rows printed in the order of their records
C10_Witness ==
    /\ pc = "exited"
    /\ cli # <<>>
    /\ ~cli.header /\ ~cli.json
    /\ cli.target = <<"2", ",", "1">>
    /\ records = <<RawRecord(<<"a", "b">>, TRUE), RawRecord(<<"b", "b">>, TRUE),
                   RawRecord(<<"b", "a">>, TRUE)>>
    /\ stdout = <<Line("plain", "b,a"), Line("plain", "b,b"), Line("plain", "a,b")>>

====
